---- MODULE Spec2Model ----
(***************************************************************************)
(* A model of kinto_integrity's cert_storage decoding pipeline and of its  *)
(* canonical-record reconciler:                                            *)
(*   src/kinto_integrity/src/firefox/cert_storage/mod.rs                   *)
(*   src/kinto_integrity/src/model/mod.rs                                  *)
(* Bytes are the integers 0..255, byte buffers are sequences of bytes      *)
(* (Rust's index i is the sequence's index i + 1), text is a TLA+ string.  *)
(***************************************************************************)
EXTENDS Integers, Sequences, FiniteSets, TLC

VARIABLES
    key,          \* split_der_key's argument
    parts,        \* how the argument was put together: <<e1, e2>>, or <<>>
    split_result, \* what split_der_key returned ("Pending" before the call)
    store,        \* the cert_storage table: its readable (key, value) pairs in key order
    pos,          \* try_from's position in the iteration of the store
    data,         \* try_from's revocations.data
    load_result,  \* what try_from returned ("Opening", then "Running", before it returns)
    cert_storage, \* a CertStorage's data: a set of IssuerSerial
    kinto,        \* a Kinto's data: records of issuer_name and serial_number
    revocations,  \* a Revocations' data: records of issuer_name and serials
    ccadb,        \* a CCADBReport's report: the rows of the table
    outcome       \* what the conversion that was run produced

splitVars == <<key, parts, split_result>>
loadVars == <<store, pos, data, load_result>>
sourceVars == <<cert_storage, kinto, revocations, ccadb>>
vars == <<splitVars, loadVars, sourceVars, outcome>>

(***************************************************************************)
(* Bounds of the model.                                                    *)
(***************************************************************************)
\* longest buffer built from every combination of the selected bytes
MaxRawLen == 3
\* most bytes that follow the element a framed buffer declares
MaxTail == 2
\* most entries in a modelled store
MaxEntries == 3
\* most records in a source handed to a canonical record builder
MaxRecords == 2
\* most serials listed under one issuer of a Revocations source
MaxSerials == 2
\* most records in each source handed to the reconciler
MaxReconciled == 2
\* most issuers in the Revocations source handed to the reconciler
MaxFanned == 1

(***************************************************************************)
(* Byte-level helpers.                                                     *)
(***************************************************************************)
Fill(n, b) == [i \in 1..n |-> b]

RECURSIVE BitOr(_, _)
\* a | b on naturals
BitOr(a, b) ==
    IF a = 0 THEN b
    ELSE IF b = 0 THEN a
    ELSE (IF a % 2 = 1 \/ b % 2 = 1 THEN 1 ELSE 0) + 2 * BitOr(a \div 2, b \div 2)

\* (a as usize) << 8 for a byte a: below 2^16, so nothing is shifted out
Shl8(a) == a * 256

(***************************************************************************)
(* Results.  A Rust panic (slice index out of range, split_at past the     *)
(* end) is an outcome of its own, distinct from every Err value.           *)
(***************************************************************************)
SplitOk(a, b) == [kind |-> "Ok", first |-> a, rest |-> b, err |-> ""]
SplitErr(e) == [kind |-> "Err", first |-> <<>>, rest |-> <<>>, err |-> e]
SplitPanic == [kind |-> "Panic", first |-> <<>>, rest |-> <<>>, err |-> "index out of range"]
Pending == [kind |-> "Pending", first |-> <<>>, rest |-> <<>>, err |-> ""]

\* does key[i] (Rust, 0-based) stay inside the slice
in_bounds(k, i) == i < Len(k)

\* key[i] (Rust, 0-based)
index(k, i) == k[i + 1]

\* <[u8]>::split_at: panics when mid > len
split_at(k, mid) ==
    IF mid > Len(k) THEN SplitPanic
    ELSE SplitOk(SubSeq(k, 1, mid), SubSeq(k, mid + 1, Len(k)))

(***************************************************************************)
(* split_der_key, branch by branch.                                        *)
(***************************************************************************)
\* first_len_byte < 0x80
short_form(k, first_len_byte) ==
    IF Len(k) < first_len_byte + 2 THEN SplitErr("key too short")
    ELSE split_at(k, first_len_byte + 2)

\* long_form_1 with the canonical-form test off by one
long_form_1_strict(k) ==
    IF Len(k) < 3 THEN SplitErr("key too short to be DER")
    ELSE IF ~in_bounds(k, 2) THEN SplitPanic
    ELSE LET len == index(k, 2) IN
         IF len <= 128 THEN SplitErr("bad DER")
         ELSE IF Len(k) < len + 3 THEN SplitErr("key too short")
         ELSE split_at(k, len + 3)

\* first_len_byte == 0x81
long_form_1(k) ==
    IF Len(k) < 3 THEN SplitErr("key too short to be DER")
    ELSE IF ~in_bounds(k, 2) THEN SplitPanic
    ELSE LET len == index(k, 2) IN
         IF len < 128 THEN SplitErr("bad DER")
         ELSE IF Len(k) < len + 3 THEN SplitErr("key too short")
         ELSE split_at(k, len + 3)

\* long_form_2 splitting after a header of three bytes instead of four
long_form_2_short_header(k) ==
    IF Len(k) < 4 THEN SplitErr("key too short to be DER")
    ELSE IF ~in_bounds(k, 2) \/ ~in_bounds(k, 3) THEN SplitPanic
    ELSE LET len == BitOr(Shl8(index(k, 2)), index(k, 3)) IN
         IF len < 256 THEN SplitErr("bad DER")
         ELSE IF Len(k) < len + 4 THEN SplitErr("key too short")
         ELSE split_at(k, len + 3)

\* first_len_byte == 0x82
long_form_2(k) ==
    IF Len(k) < 4 THEN SplitErr("key too short to be DER")
    ELSE IF ~in_bounds(k, 2) \/ ~in_bounds(k, 3) THEN SplitPanic
    ELSE LET len == BitOr(Shl8(index(k, 2)), index(k, 3)) IN
         IF len < 256 THEN SplitErr("bad DER")
         ELSE IF Len(k) < len + 4 THEN SplitErr("key too short")
         ELSE split_at(k, len + 4)

\* the dispatch on key[1] once the buffer is known to hold it
length_dispatch(k) ==
    IF ~in_bounds(k, 1) THEN SplitPanic
    ELSE LET first_len_byte == index(k, 1) IN
         IF first_len_byte < 128 THEN short_form(k, first_len_byte)
         ELSE IF first_len_byte = 128 THEN SplitErr("unsupported ASN.1")
         ELSE IF first_len_byte = 129 THEN long_form_1(k)
         ELSE IF first_len_byte = 130 THEN long_form_2(k)
         ELSE SplitErr("key too long")

\* split_der_key asking for one byte where it reads the second
split_der_key_one_byte(k) ==
    IF Len(k) < 1 THEN SplitErr("key too short to be DER")
    ELSE length_dispatch(k)

split_der_key(k) ==
    IF Len(k) < 2 THEN SplitErr("key too short to be DER")
    ELSE length_dispatch(k)

(***************************************************************************)
(* base64::encode: the standard alphabet, padded with '='.                 *)
(***************************************************************************)
STANDARD_ALPHABET ==
    <<
      "A", "B", "C", "D", "E", "F", "G", "H", "I", "J", "K", "L", "M", "N", "O", "P",
      "Q", "R", "S", "T", "U", "V", "W", "X", "Y", "Z", "a", "b", "c", "d", "e", "f",
      "g", "h", "i", "j", "k", "l", "m", "n", "o", "p", "q", "r", "s", "t", "u", "v",
      "w", "x", "y", "z", "0", "1", "2", "3", "4", "5", "6", "7", "8", "9", "+", "/" >>

\* the character of a 6-bit value
b64_char(v) == STANDARD_ALPHABET[v + 1]

RECURSIVE base64_encode(_)
base64_encode(b) ==
    IF Len(b) = 0 THEN ""
    ELSE IF Len(b) = 1 THEN
        b64_char(b[1] \div 4) \o b64_char((b[1] % 4) * 16) \o "=="
    ELSE IF Len(b) = 2 THEN
        b64_char(b[1] \div 4) \o b64_char((b[1] % 4) * 16 + b[2] \div 16)
            \o b64_char((b[2] % 16) * 4) \o "="
    ELSE
        b64_char(b[1] \div 4) \o b64_char((b[1] % 4) * 16 + b[2] \div 16)
            \o b64_char((b[2] % 16) * 4 + b[3] \div 64) \o b64_char(b[3] % 64)
            \o base64_encode(SubSeq(b, 4, Len(b)))

(***************************************************************************)
(* The store's values (Option<rkv::Value>) and try_from's helpers.         *)
(***************************************************************************)
NoValue == [kind |-> "None", n |-> 0]
I64(i) == [kind |-> "I64", n |-> i]
U64(i) == [kind |-> "U64", n |-> i]

IssuerSerial(name, ser) == [issuer_name |-> name, serial |-> ser]

\* Option<Result<IssuerSerial>>; "Panic" when the splitter panicked
DecodedNone == [kind |-> "None", entry |-> IssuerSerial("", ""), err |-> ""]
DecodedOk(e) == [kind |-> "Ok", entry |-> e, err |-> ""]
DecodedErr(e) == [kind |-> "Err", entry |-> IssuerSerial("", ""), err |-> e]
DecodedPanic == [kind |-> "Panic", entry |-> IssuerSerial("", ""), err |-> ""]

\* is_revoked taking every non-zero integer for "revoked"
is_revoked_nonzero(value) == value.kind = "I64" /\ value.n # 0

\* the match on *value at the head of decode_revocation: is the entry revoked
is_revoked(value) == value.kind = "I64" /\ value.n = 1

decode_revocation(k, value) ==
    IF ~is_revoked(value) THEN DecodedNone
    ELSE LET r == split_der_key(k) IN
         CASE r.kind = "Ok" ->
                DecodedOk(IssuerSerial(base64_encode(r.first), base64_encode(r.rest)))
           [] r.kind = "Err" -> DecodedErr(r.err)
           [] OTHER -> DecodedPanic

\* the slice patterns [b'i', b's', entry @ ..] and [b's', b'p', b'k', entry @ ..]
has_prefix(k, p) == Len(k) >= Len(p) /\ SubSeq(k, 1, Len(p)) = p
after_prefix(k, p) == SubSeq(k, Len(p) + 1, Len(k))
PrefixIs == <<105, 115>>
PrefixSpk == <<115, 112, 107>>

\* the match on key in try_from's loop
match_key(k, value) ==
    IF has_prefix(k, PrefixIs) THEN decode_revocation(after_prefix(k, PrefixIs), value)
    ELSE IF has_prefix(k, PrefixSpk) THEN decode_revocation(after_prefix(k, PrefixSpk), value)
    ELSE DecodedNone

\* Result<CertStorage>
Running == [kind |-> "Running", data |-> {}, err |-> <<>>]
LoadOk(d) == [kind |-> "Ok", data |-> d, err |-> <<>>]
LoadErr(chain) == [kind |-> "Err", data |-> {}, err |-> chain]
LoadPanic == [kind |-> "Panic", data |-> {}, err |-> <<>>]
Idle == [kind |-> "Idle", data |-> {}, err |-> <<>>]
\* try_from entered, the store not yet opened
Opening == [kind |-> "Opening", data |-> {}, err |-> <<>>]

\* the calls on the store that try_from makes before the loop, each of which
\* may return Err: Rkv::from_builder, open_single, read, iter_start
OpenSteps == <<"from_builder", "open_single", "read", "iter_start">>
\* the store's error for a failed call, as text (the store's own wording is
\* not part of these sources); `?` and format! pass it on without a chain
store_failure(step) == <<"store failure in " \o step>>
\* the error of an item the iterator could not read: `item?`
item_failure == <<"store item error">>

\* handle_item skipping an entry that fails to decode
handle_item_skipping_errors(d, is) ==
    CASE is.kind = "Ok" -> [data |-> d \cup {is.entry}, result |-> Running]
      [] is.kind = "Err" -> [data |-> d, result |-> Running]
      [] is.kind = "None" -> [data |-> d, result |-> Running]
      [] OTHER -> [data |-> d, result |-> LoadPanic]

\* the match on `is` in try_from's loop: the set and the result after one item
handle_item(d, is) ==
    CASE is.kind = "Ok" -> [data |-> d \cup {is.entry}, result |-> Running]
      [] is.kind = "Err" ->
            [data |-> d,
             result |-> LoadErr(<<"failed to build set from cert_storage", is.err>>)]
      [] is.kind = "None" -> [data |-> d, result |-> Running]
      [] OTHER -> [data |-> d, result |-> LoadPanic]

(***************************************************************************)
(* asn1::parse_issuers.  The module is not among the sources; it is        *)
(* modelled from its contract: every name of the batch is parsed to its    *)
(* Common Name and Organization ("" when absent), the output is aligned    *)
(* with the input, and one name that does not parse fails the batch.       *)
(* The names are base64 texts of DER Names.                                *)
(***************************************************************************)
NameAX == "MBgxCjAIBgNVBAoMAVgxCjAIBgNVBAMMAUE="    \* O=X, CN=A
NameAXSwapped == "MBgxCjAIBgNVBAMMAUExCjAIBgNVBAoMAVg=" \* CN=A, O=X
NameB == "MAwxCjAIBgNVBAMMAUI="                    \* CN=B
NameEmpty == "MAA="                                \* no attribute at all
NameBad == "AAAA"                                  \* not a DER Name

Issuer(cn, org) == [ok |-> TRUE, common_name |-> cn, organization |-> org]
NotAName == [ok |-> FALSE, common_name |-> "", organization |-> ""]

\* one name of the batch
parse_name(name) ==
    CASE name = NameAX -> Issuer("A", "X")
      [] name = NameAXSwapped -> Issuer("A", "X")
      [] name = NameB -> Issuer("B", "")
      [] name = NameEmpty -> Issuer("", "")
      [] OTHER -> NotAName

\* Result<Vec<Issuer>>
parse_issuers(names) ==
    IF \E i \in DOMAIN names : ~parse_name(names[i]).ok
    THEN [ok |-> FALSE, issuers |-> <<>>]
    ELSE [ok |-> TRUE, issuers |-> [i \in DOMAIN names |-> parse_name(names[i])]]

(***************************************************************************)
(* The canonical record builders: From<..> for HashSet<Intermediary>.      *)
(* unwrap() of an Err or of a None is a panic.                             *)
(***************************************************************************)
Intermediary(cn, org, ser) == [common_name |-> cn, organization |-> org, serial |-> ser]

BuiltSet(set) == [kind |-> "Set", set |-> set, panic |-> ""]
BuildPanic(what) == [kind |-> "Panic", set |-> {}, panic |-> what]

\* Vec::get(i).unwrap() stays in the vector
get_ok(v, i) == i < Len(v)
\* Vec::get(i).unwrap(), get_unchecked(i) (Rust, 0-based)
get(v, i) == v[i + 1]

\* revocations_records giving every serial the first issuer's attributes
revocations_records_first_issuer(issuers, rdata) ==
    UNION {{Intermediary(get(issuers, 0).common_name, get(issuers, 0).organization,
                         get(rdata, i).serials[j]) : j \in DOMAIN get(rdata, i).serials} :
            i \in 0 .. Len(issuers) - 1}

\* the records the Revocations loops insert, issuer i with each of its serials
revocations_records(issuers, rdata) ==
    UNION {{Intermediary(get(issuers, i).common_name, get(issuers, i).organization,
                         get(rdata, i).serials[j]) : j \in DOMAIN get(rdata, i).serials} :
            i \in 0 .. Len(issuers) - 1}

\* impl From<Revocations> for HashSet<Intermediary>
from_revocations(rdata) ==
    LET parsed == parse_issuers([i \in DOMAIN rdata |-> rdata[i].issuer_name]) IN
    IF ~parsed.ok THEN BuildPanic("parse_issuers")
    ELSE IF \E i \in 0 .. Len(parsed.issuers) - 1 : ~get_ok(rdata, i)
    THEN BuildPanic("get")
    ELSE BuiltSet(revocations_records(parsed.issuers, rdata))

\* kinto_records reading the serials from the other end of the vector
kinto_records_reversed(issuers, kdata) ==
    {Intermediary(get(issuers, i).common_name, get(issuers, i).organization,
                  get(kdata, Len(kdata) - 1 - i).serial_number) : i \in 0 .. Len(issuers) - 1}

\* the records the Kinto loop inserts, issuer i with record i's serial_number
kinto_records(issuers, kdata) ==
    {Intermediary(get(issuers, i).common_name, get(issuers, i).organization,
                  get(kdata, i).serial_number) : i \in 0 .. Len(issuers) - 1}

\* impl From<Kinto> for HashSet<Intermediary>
from_kinto(kdata) ==
    LET parsed == parse_issuers([i \in DOMAIN kdata |-> kdata[i].issuer_name]) IN
    IF ~parsed.ok THEN BuildPanic("parse_issuers")
    ELSE IF \E i \in 0 .. Len(parsed.issuers) - 1 : ~get_ok(kdata, i)
    THEN BuildPanic("get")
    ELSE BuiltSet(kinto_records(parsed.issuers, kdata))

\* the records the CertStorage loop inserts, issuer i with cs[i]'s serial
cert_storage_records(issuers, cs) ==
    {Intermediary(get(issuers, i).common_name, get(issuers, i).organization,
                  get(cs, i).serial) : i \in 0 .. Len(issuers) - 1}

\* impl From<CertStorage> for HashSet<Intermediary>, on the vector cs that
\* cs.data.iter().cloned().collect() produced
from_cert_storage(cs) ==
    LET parsed == parse_issuers([i \in DOMAIN cs |-> cs[i].issuer_name]) IN
    IF ~parsed.ok THEN BuildPanic("parse_issuers")
    ELSE IF \E i \in 0 .. Len(parsed.issuers) - 1 : ~get_ok(cs, i)
    THEN BuildPanic("get")
    ELSE BuiltSet(cert_storage_records(parsed.issuers, cs))

\* hex::decode on the characters of a text: an odd number of characters or
\* a character that is no hexadecimal digit is an Err
HexDigits ==
    [c \in {"0", "1", "2", "3", "4", "5", "6", "7", "8", "9",
            "a", "b", "c", "d", "e", "f", "A", "B", "C", "D", "E", "F"} |->
        CASE c = "0" -> 0 [] c = "1" -> 1 [] c = "2" -> 2 [] c = "3" -> 3
          [] c = "4" -> 4 [] c = "5" -> 5 [] c = "6" -> 6 [] c = "7" -> 7
          [] c = "8" -> 8 [] c = "9" -> 9
          [] c \in {"a", "A"} -> 10 [] c \in {"b", "B"} -> 11
          [] c \in {"c", "C"} -> 12 [] c \in {"d", "D"} -> 13
          [] c \in {"e", "E"} -> 14 [] c \in {"f", "F"} -> 15]

hex_decode(chars) ==
    IF Len(chars) % 2 = 1 \/ \E i \in DOMAIN chars : chars[i] \notin DOMAIN HexDigits
    THEN [ok |-> FALSE, bytes |-> <<>>]
    ELSE [ok |-> TRUE,
          bytes |-> [i \in 1 .. Len(chars) \div 2 |->
                        HexDigits[chars[2 * i - 1]] * 16 + HexDigits[chars[2 * i]]]]

\* the closure mapped over the rows of a CCADBReport
ccadb_record(row) ==
    Intermediary(row.certificate_issuer_common_name, row.certificate_issuer_organization,
                 base64_encode(hex_decode(row.certificate_serial_number).bytes))

\* impl From<CCADBReport> for HashSet<Intermediary>
from_ccadb(report) ==
    IF \E i \in DOMAIN report : ~hex_decode(report[i].certificate_serial_number).ok
    THEN BuildPanic("hex::decode")
    ELSE BuiltSet({ccadb_record(report[i]) : i \in DOMAIN report})

(***************************************************************************)
(* The reconciler: From<..> for Return.  A field is None or Some(list);    *)
(* a list is collected from a HashSet difference, in the set's own order.  *)
(***************************************************************************)
None == [some |-> FALSE, list |-> <<>>]
Some(l) == [some |-> TRUE, list |-> l]

\* the vectors a HashSet's iteration may collect: every order, no repeats
Collected(S) ==
    {v \in [1 .. Cardinality(S) -> S] : \A i, j \in DOMAIN v : v[i] = v[j] => i = j}

\* a.difference(&b), as a set
difference(a, b) == a \ b

\* with_revocations with the operands of the revocations/kinto pair exchanged
with_revocations_exchanged(cs, k, r) ==
    [in_kinto_not_in_cert_storage |-> difference(k, cs),
     in_cert_storage_not_in_kinto |-> difference(cs, k),
     in_cert_storage_not_in_revocations |-> difference(cs, r),
     in_revocations_not_in_cert_storage |-> difference(r, cs),
     in_revocations_not_in_kinto |-> difference(k, r),
     in_kinto_not_in_revocations |-> difference(r, k)]

\* the differences of WithRevocations, by field
with_revocations(cs, k, r) ==
    [in_kinto_not_in_cert_storage |-> difference(k, cs),
     in_cert_storage_not_in_kinto |-> difference(cs, k),
     in_cert_storage_not_in_revocations |-> difference(cs, r),
     in_revocations_not_in_cert_storage |-> difference(r, cs),
     in_revocations_not_in_kinto |-> difference(r, k),
     in_kinto_not_in_revocations |-> difference(k, r)]

\* the differences of WithoutRevocations, by field
without_revocations(cs, k) ==
    [in_kinto_not_in_cert_storage |-> difference(k, cs),
     in_cert_storage_not_in_kinto |-> difference(cs, k)]

\* the differences of CCADBDiffCertStorage, by field
ccadb_diff_cert_storage(cs, report) ==
    [in_ccadb_not_in_cert_storage |-> difference(report, cs),
     in_cert_storage_not_in_ccadb |-> difference(cs, report)]

ReturnFields ==
    {"in_kinto_not_in_cert_storage", "in_cert_storage_not_in_kinto",
     "in_cert_storage_not_in_revocations", "in_revocations_not_in_cert_storage",
     "in_revocations_not_in_kinto", "in_kinto_not_in_revocations",
     "in_ccadb_not_in_cert_storage", "in_cert_storage_not_in_ccadb"}

\* a Return with every field None
NoFields == [f \in ReturnFields |-> None]

\* what a conversion produced
NotRun == [op |-> "", kind |-> "NotRun", set |-> {}, ret |-> NoFields,
           panic |-> ""]
Built(op, b) == [op |-> op, kind |-> b.kind, set |-> b.set,
                 ret |-> NoFields, panic |-> b.panic]
Reported(op, ret) == [op |-> op, kind |-> "Return", set |-> {}, ret |-> ret, panic |-> ""]

(***************************************************************************)
(* The variables a specification does not use keep these values.           *)
(***************************************************************************)
SplitUnused == key = <<>> /\ parts = <<>> /\ split_result = Pending
LoadUnused == store = <<>> /\ pos = 0 /\ data = {} /\ load_result = Idle
ModelUnused ==
    /\ cert_storage = {}
    /\ kinto = <<>>
    /\ revocations = <<>>
    /\ ccadb = <<>>
    /\ outcome = NotRun

(***************************************************************************)
(* The stores the loader is run on: entries with distinct keys, iterated   *)
(* in ascending key order.                                                 *)
(***************************************************************************)
LongPayload == <<48, 129, 128>> \o Fill(128, 1) \o <<2, 1, 5>>

StoreKeys ==
    { PrefixIs \o <<48, 1, 65, 2, 1, 9>>,
      PrefixSpk \o <<48, 1, 65, 2, 1, 9>>,
      PrefixIs \o <<48, 0>>,
      PrefixIs \o LongPayload,
      PrefixIs \o <<48, 129, 5, 1, 2, 3, 4, 5>>,
      PrefixSpk \o <<48>>,
      PrefixIs,
      <<115, 112>> }

StoreValues == {NoValue, I64(0), I64(1), I64(2), U64(1)}

RECURSIVE LexLess(_, _)
\* a < b in the store's byte-wise key order
LexLess(a, b) ==
    IF Len(b) = 0 THEN FALSE
    ELSE IF Len(a) = 0 THEN TRUE
    ELSE IF a[1] # b[1] THEN a[1] < b[1]
    ELSE LexLess(Tail(a), Tail(b))

RECURSIVE Ascending(_)
\* the keys of S in ascending order
Ascending(S) ==
    IF S = {} THEN <<>>
    ELSE LET least == CHOOSE x \in S : \A y \in S : x = y \/ LexLess(x, y) IN
         <<least>> \o Ascending(S \ {least})

InitLoad ==
    /\ \E S \in {T \in SUBSET StoreKeys : Cardinality(T) <= MaxEntries} :
         \E value \in [S -> StoreValues] :
            store = [i \in 1..Cardinality(S) |->
                        [key |-> Ascending(S)[i], value |-> value[Ascending(S)[i]]]]
    /\ pos = 0
    /\ data = {}
    /\ load_result = Opening
    /\ SplitUnused
    /\ ModelUnused

\* try_from up to the loop: the environment, the table, the reader and the
\* iterator are obtained, or the first of these calls that fails returns its Err
LoadOpen ==
    /\ load_result.kind = "Opening"
    /\ \/ load_result' = Running
       \/ \E i \in DOMAIN OpenSteps : load_result' = LoadErr(store_failure(OpenSteps[i]))
    /\ UNCHANGED <<splitVars, store, pos, data, sourceVars, outcome>>

\* one turn of try_from's loop over the store, the item being readable
LoadItem ==
    /\ load_result.kind = "Running"
    /\ pos < Len(store)
    /\ LET item == store[pos + 1]
           after == handle_item(data, match_key(item.key, item.value))
       IN /\ data' = after.data
          /\ load_result' = after.result
          /\ pos' = IF after.result.kind = "Running" THEN pos + 1 ELSE pos
    /\ UNCHANGED <<splitVars, store, sourceVars, outcome>>

\* one turn of try_from's loop in which the iterator yields Err: `item?`
\* returns the store's error at once
LoadItemError ==
    /\ load_result.kind = "Running"
    /\ load_result' = LoadErr(item_failure)
    /\ UNCHANGED <<splitVars, store, pos, data, sourceVars, outcome>>

\* the iterator is exhausted: Ok(revocations)
LoadReturn ==
    /\ load_result.kind = "Running"
    /\ pos = Len(store)
    /\ load_result' = LoadOk(data)
    /\ UNCHANGED <<splitVars, store, pos, data, sourceVars, outcome>>

NextLoad == LoadOpen \/ LoadItem \/ LoadItemError \/ LoadReturn

SpecLoad == InitLoad /\ [][NextLoad]_vars

(***************************************************************************)
(* Inputs of split_der_key.                                                *)
(***************************************************************************)
\* bytes around every threshold the splitter compares against
SelBytes == {0, 1, 2, 48, 127, 128, 129, 130, 131, 255}

RECURSIVE SeqsUpTo(_, _)
\* every sequence over S of length at most n
SeqsUpTo(S, n) ==
    IF n = 0 THEN {<<>>}
    ELSE LET shorter == SeqsUpTo(S, n - 1) IN
         shorter \cup {Append(s, x) : s \in {t \in shorter : Len(t) = n - 1}, x \in S}

RawKeys == SeqsUpTo(SelBytes, MaxRawLen)

\* DER's own length octets for a content of n bytes (X.690 10.1, 8.1.3)
DerLength(n) ==
    IF n < 128 THEN <<n>>
    ELSE IF n < 256 THEN <<129, n>>
    ELSE IF n < 65536 THEN <<130, n \div 256, n % 256>>
    ELSE <<131, n \div 65536, (n \div 256) % 256, n % 256>>

\* DER's identifier octets for tag number t of the universal class,
\* primitive (X.690 8.1.2): one octet below 31, the high-tag-number form above
DerIdentifier(t) ==
    IF t < 31 THEN <<t>>
    ELSE IF t < 128 THEN <<31, t>>
    ELSE <<31, 128 + (t \div 128), t % 128>>

\* the canonical DER encoding of an element with tag number t and n content bytes b
DerEncode(t, n, b) == DerIdentifier(t) \o DerLength(n) \o Fill(n, b)

\* tag numbers of the elements: INTEGER, SEQUENCE (as a number), and two that
\* need the high-tag-number form
TagNumbers == {2, 16, 31, 200}
\* content lengths around the changes of length form
FirstLengths == {0, 1, 127, 128, 255, 256, 257, 65535, 65536}
SecondLengths == {0, 1, 128}
ContentBytes == {0, 129}

ConcatInputs ==
    {<<DerEncode(t1, n1, b), DerEncode(t2, n2, b)>> :
        t1 \in TagNumbers, t2 \in {2, 31}, n1 \in FirstLengths, n2 \in SecondLengths,
        b \in ContentBytes}

\* length octets, each with the content length it declares
LengthHeaders ==
    {<<<<n>>, n>> : n \in {0, 1, 5, 127}}
    \cup {<<<<129, n>>, n>> : n \in {0, 127, 128, 129, 255}}
    \cup {<<<<130, n \div 256, n % 256>>, n>> : n \in {0, 255, 256, 257}}
    \cup {<<<<128>>, 0>>, <<<<131, 0, 0, 1>>, 1>>, <<<<255>>, 0>>}

\* a tag byte, length octets, and a body shorter than, as long as, or longer
\* than the length the octets declare
BodyLengths(n) == {m \in {n - 2, n - 1} : m >= 0} \cup (n .. n + MaxTail)

FramedKeys ==
    UNION {{<<48>> \o h[1] \o Fill(m, 7) : m \in BodyLengths(h[2])} : h \in LengthHeaders}

InitSplit ==
    /\ \/ /\ key \in RawKeys \cup FramedKeys
          /\ parts = <<>>
       \/ \E p \in ConcatInputs :
            /\ key = p[1] \o p[2]
            /\ parts = p
    /\ split_result = Pending
    /\ LoadUnused
    /\ ModelUnused

\* one call of split_der_key
Split ==
    /\ split_result = Pending
    /\ split_result' = split_der_key(key)
    /\ UNCHANGED <<key, parts, loadVars, sourceVars, outcome>>

NextSplit == Split

SpecSplit == InitSplit /\ [][NextSplit]_vars

(***************************************************************************)
(* The canonical record builders, each run on a source of its own.         *)
(***************************************************************************)
SerialTexts == {"AQ==", "Ag=="}
IssuerNames == {NameAX, NameAXSwapped, NameB, NameEmpty, NameBad}

IssuerSerials(names, serials) == {IssuerSerial(n, x) : n \in names, x \in serials}
KintoRecords(names, serials) ==
    {[issuer_name |-> n, serial_number |-> x] : n \in names, x \in serials}
RevocationsRecords(names, serials, most) ==
    {[issuer_name |-> n, serials |-> l] : n \in names, l \in SeqsUpTo(serials, most)}
CCADBRows(issuers, serials) ==
    {[certificate_issuer_common_name |-> i[1], certificate_issuer_organization |-> i[2],
      certificate_serial_number |-> x] : i \in issuers, x \in serials}

HexSerials ==
    {<<"0", "1">>, <<"0", "2">>, <<"0", "A", "1", "B">>, <<"0", "a", "1", "b">>,
     <<"0", "G">>, <<"1">>}

UpTo(S, n) == {T \in SUBSET S : Cardinality(T) <= n}

InitBuild ==
    /\ \/ /\ cert_storage \in UpTo(IssuerSerials(IssuerNames, SerialTexts), MaxRecords)
          /\ kinto = <<>> /\ revocations = <<>> /\ ccadb = <<>>
       \/ /\ kinto \in SeqsUpTo(KintoRecords(IssuerNames, SerialTexts), MaxRecords)
          /\ cert_storage = {} /\ revocations = <<>> /\ ccadb = <<>>
       \/ /\ revocations \in
                SeqsUpTo(RevocationsRecords({NameAX, NameB, NameBad}, SerialTexts, MaxSerials),
                         MaxRecords)
          /\ cert_storage = {} /\ kinto = <<>> /\ ccadb = <<>>
       \/ /\ ccadb \in SeqsUpTo(CCADBRows({<<"A", "X">>, <<"B", "">>}, HexSerials), MaxRecords)
          /\ cert_storage = {} /\ kinto = <<>> /\ revocations = <<>>
    /\ outcome = NotRun
    /\ SplitUnused
    /\ LoadUnused

\* revocations.into()
FromRevocations ==
    /\ outcome = NotRun
    /\ outcome' = Built("Revocations", from_revocations(revocations))
    /\ UNCHANGED <<splitVars, loadVars, sourceVars>>

\* kinto.into()
FromKinto ==
    /\ outcome = NotRun
    /\ outcome' = Built("Kinto", from_kinto(kinto))
    /\ UNCHANGED <<splitVars, loadVars, sourceVars>>

\* cert_storage.into(): the set is first collected into a vector
FromCertStorage ==
    /\ outcome = NotRun
    /\ \E cs \in Collected(cert_storage) :
          outcome' = Built("CertStorage", from_cert_storage(cs))
    /\ UNCHANGED <<splitVars, loadVars, sourceVars>>

\* ccadb.into()
FromCCADBReport ==
    /\ outcome = NotRun
    /\ outcome' = Built("CCADBReport", from_ccadb(ccadb))
    /\ UNCHANGED <<splitVars, loadVars, sourceVars>>

NextBuild == FromRevocations \/ FromKinto \/ FromCertStorage \/ FromCCADBReport

SpecBuild == InitBuild /\ [][NextBuild]_vars

(***************************************************************************)
(* The reconciler, run in each of its three modes.                         *)
(***************************************************************************)
ReconciledNames == {NameAX, NameAXSwapped, NameB, NameBad}
ReconciledSerials == {"AQ=="}

InitReconcile ==
    /\ cert_storage \in UpTo(IssuerSerials(ReconciledNames, ReconciledSerials), MaxReconciled)
    /\ \/ /\ kinto \in SeqsUpTo(KintoRecords(ReconciledNames, ReconciledSerials), MaxReconciled)
          /\ revocations \in
                SeqsUpTo(RevocationsRecords(ReconciledNames, ReconciledSerials, 1),
                         MaxFanned)
          /\ ccadb = <<>>
       \/ /\ kinto = <<>>
          /\ revocations = <<>>
          /\ ccadb \in SeqsUpTo(CCADBRows({<<"A", "X">>, <<"B", "">>},
                                          {<<"0", "1">>, <<"0", "G">>}), MaxReconciled)
    /\ outcome = NotRun
    /\ SplitUnused
    /\ LoadUnused

\* Return::from((cert_storage, kinto, revocations))
ReturnFromWithRevocations ==
    /\ outcome = NotRun
    /\ \E v \in Collected(cert_storage) :
          LET cs == from_cert_storage(v)
              k == from_kinto(kinto)
              r == from_revocations(revocations)
              d == with_revocations(cs.set, k.set, r.set)
          IN IF cs.kind = "Panic" THEN outcome' = Built("WithRevocations", cs)
             ELSE IF k.kind = "Panic" THEN outcome' = Built("WithRevocations", k)
             ELSE IF r.kind = "Panic" THEN outcome' = Built("WithRevocations", r)
             ELSE \E l1 \in Collected(d.in_kinto_not_in_cert_storage),
                     l2 \in Collected(d.in_cert_storage_not_in_kinto),
                     l3 \in Collected(d.in_cert_storage_not_in_revocations),
                     l4 \in Collected(d.in_revocations_not_in_cert_storage),
                     l5 \in Collected(d.in_revocations_not_in_kinto),
                     l6 \in Collected(d.in_kinto_not_in_revocations) :
                     outcome' = Reported("WithRevocations",
                        [in_kinto_not_in_cert_storage |-> Some(l1),
                         in_cert_storage_not_in_kinto |-> Some(l2),
                         in_cert_storage_not_in_revocations |-> Some(l3),
                         in_revocations_not_in_cert_storage |-> Some(l4),
                         in_revocations_not_in_kinto |-> Some(l5),
                         in_kinto_not_in_revocations |-> Some(l6),
                         in_ccadb_not_in_cert_storage |-> None,
                         in_cert_storage_not_in_ccadb |-> None])
    /\ UNCHANGED <<splitVars, loadVars, sourceVars>>

\* Return::from((cert_storage, kinto))
ReturnFromWithoutRevocations ==
    /\ outcome = NotRun
    /\ \E v \in Collected(cert_storage) :
          LET cs == from_cert_storage(v)
              k == from_kinto(kinto)
              d == without_revocations(cs.set, k.set)
          IN IF cs.kind = "Panic" THEN outcome' = Built("WithoutRevocations", cs)
             ELSE IF k.kind = "Panic" THEN outcome' = Built("WithoutRevocations", k)
             ELSE \E l1 \in Collected(d.in_kinto_not_in_cert_storage),
                     l2 \in Collected(d.in_cert_storage_not_in_kinto) :
                     outcome' = Reported("WithoutRevocations",
                        [in_kinto_not_in_cert_storage |-> Some(l1),
                         in_cert_storage_not_in_kinto |-> Some(l2),
                         in_cert_storage_not_in_revocations |-> None,
                         in_revocations_not_in_cert_storage |-> None,
                         in_revocations_not_in_kinto |-> None,
                         in_kinto_not_in_revocations |-> None,
                         in_ccadb_not_in_cert_storage |-> None,
                         in_cert_storage_not_in_ccadb |-> None])
    /\ UNCHANGED <<splitVars, loadVars, sourceVars>>

\* Return::from((cert_storage, ccadb))
ReturnFromCCADBDiffCertStorage ==
    /\ outcome = NotRun
    /\ \E v \in Collected(cert_storage) :
          LET cs == from_cert_storage(v)
              report == from_ccadb(ccadb)
              d == ccadb_diff_cert_storage(cs.set, report.set)
          IN IF cs.kind = "Panic" THEN outcome' = Built("CCADBDiffCertStorage", cs)
             ELSE IF report.kind = "Panic" THEN outcome' = Built("CCADBDiffCertStorage", report)
             ELSE \E l1 \in Collected(d.in_ccadb_not_in_cert_storage),
                     l2 \in Collected(d.in_cert_storage_not_in_ccadb) :
                     outcome' = Reported("CCADBDiffCertStorage",
                        [in_kinto_not_in_cert_storage |-> None,
                         in_cert_storage_not_in_kinto |-> None,
                         in_cert_storage_not_in_revocations |-> None,
                         in_revocations_not_in_cert_storage |-> None,
                         in_revocations_not_in_kinto |-> None,
                         in_kinto_not_in_revocations |-> None,
                         in_ccadb_not_in_cert_storage |-> Some(l1),
                         in_cert_storage_not_in_ccadb |-> Some(l2)])
    /\ UNCHANGED <<splitVars, loadVars, sourceVars>>

NextReconcile ==
    ReturnFromWithRevocations \/ ReturnFromWithoutRevocations \/ ReturnFromCCADBDiffCertStorage

SpecReconcile == InitReconcile /\ [][NextReconcile]_vars

(***************************************************************************)
(* Properties of split_der_key (SpecSplit).                                *)
(***************************************************************************)
Returned == split_result.kind # "Pending"

\* the identifier of element e is one octet (its tag number is below 31)
SingleOctetIdentifier(e) == e[1] % 32 # 31
\* the length of element e, whose identifier is one octet, takes at most
\* three octets: its content is shorter than 65536 bytes
AtMostThreeLengthOctets(e) == e[2] < 131

\* C1 as stated: split_der_key of the concatenation of two canonical DER
\* encodings e1 and e2, of any tag and any content length, returns (e1, e2).
C1_AnyTwoEncodings ==
    Returned /\ parts # <<>> => split_result = SplitOk(parts[1], parts[2])

\* C1 amended: when e1's identifier is a single octet and e1's content is
\* shorter than 65536 bytes, split_der_key(e1 ++ e2) returns (e1, e2), unmodified.
C1_SplitsSupportedEncodings ==
    Returned /\ parts # <<>>
        /\ SingleOctetIdentifier(parts[1]) /\ AtMostThreeLengthOctets(parts[1])
    => split_result = SplitOk(parts[1], parts[2])

C1_Witness ==
    /\ Returned /\ parts # <<>>
    /\ SingleOctetIdentifier(parts[1])
    /\ Len(parts[1]) = 4 + 257
    /\ Len(parts[2]) > 2
    /\ split_result = SplitOk(parts[1], parts[2])

\* C2: a one-byte long-form length below 0x80 and a two-byte long-form length
\* below 256 are rejected with "bad DER" whatever follows; the lengths 0x80
\* and 256 are accepted when the buffer holds them.
C2_CanonicalLengths ==
    Returned =>
        /\ (Len(key) >= 3 /\ key[2] = 129 /\ key[3] < 128
                => split_result = SplitErr("bad DER"))
        /\ (Len(key) >= 128 + 3 /\ key[2] = 129 /\ key[3] = 128
                => split_result.kind = "Ok")
        /\ (Len(key) >= 4 /\ key[2] = 130 /\ key[3] * 256 + key[4] < 256
                => split_result = SplitErr("bad DER"))
        /\ (Len(key) >= 256 + 4 /\ key[2] = 130 /\ key[3] = 1 /\ key[4] = 0
                => split_result.kind = "Ok")

C2_Witness ==
    /\ Returned
    /\ Len(key) = 128 + 3 /\ key[2] = 129 /\ key[3] = 128
    /\ split_result.kind = "Ok"
    /\ Len(split_result.first) = 128 + 3

\* the error kinds the splitter documents, by message
ErrorKind(msg) ==
    CASE msg \in {"key too short to be DER", "key too short"} -> "KeyTooShort"
      [] msg = "unsupported ASN.1" -> "UnsupportedIndefiniteLength"
      [] msg = "bad DER" -> "BadDerLength"
      [] msg = "key too long" -> "KeyTooLong"
      [] OTHER -> "Undocumented"

\* the header length and the content length that the length octets of k encode
HeaderLength(k) == IF k[2] < 128 THEN 2 ELSE IF k[2] = 129 THEN 3 ELSE 4
EncodedLength(k) ==
    IF k[2] < 128 THEN k[2] ELSE IF k[2] = 129 THEN k[3] ELSE k[3] * 256 + k[4]

\* C3: split_der_key never reads past the end of the buffer; it returns a
\* documented failure or a pair (first, rest) with first ++ rest = key and
\* Len(first) = header length + encoded content length; a length byte of
\* 0x83 or more is always KeyTooLong.
C3_Total ==
    Returned =>
        /\ split_result.kind \in {"Ok", "Err"}
        /\ (split_result.kind = "Err" => ErrorKind(split_result.err) # "Undocumented")
        /\ (split_result.kind = "Ok" =>
                /\ split_result.first \o split_result.rest = key
                /\ Len(split_result.first) = HeaderLength(key) + EncodedLength(key))
        /\ (Len(key) >= 2 /\ key[2] >= 131 => split_result = SplitErr("key too long"))

C3_Witness ==
    /\ Returned
    /\ Len(key) = 1
    /\ split_result.kind = "Err"
    /\ ErrorKind(split_result.err) = "KeyTooShort"

(***************************************************************************)
(* Properties of the store load (SpecLoad).                                *)
(***************************************************************************)
Recognized(k) == has_prefix(k, PrefixIs) \/ has_prefix(k, PrefixSpk)
Payload(k) ==
    IF has_prefix(k, PrefixIs) THEN after_prefix(k, PrefixIs) ELSE after_prefix(k, PrefixSpk)
WellFormed(k) == Recognized(k) /\ split_der_key(Payload(k)).kind = "Ok"
\* (base64(first), base64(remainder)) of the payload of a well-formed key
RecordOf(k) ==
    LET r == split_der_key(Payload(k)) IN
    IssuerSerial(base64_encode(r.first), base64_encode(r.rest))
\* the entries the loop has been through
Processed == 1 .. pos
\* the load failed on an entry: it panicked, or returned the chained error
\* of a key that did not decode
FailedOnEntry ==
    \/ load_result.kind = "Panic"
    \/ /\ load_result.kind = "Err"
       /\ load_result.err[1] = "failed to build set from cert_storage"
\* the load failed on the store itself
StoreErrors == {store_failure(OpenSteps[i]) : i \in DOMAIN OpenSteps} \cup {item_failure}

\* C4: an entry whose value is not the integer 1 never contributes to the set
\* and never fails the load, however malformed its key; an entry with value 1
\* and a well-formed key contributes exactly its record.
C4_ValueDecidesContribution ==
    /\ \A i \in DOMAIN store :
          /\ store[i].value # I64(1) => ~(FailedOnEntry /\ i = pos + 1)
          /\ i \in Processed /\ store[i].value = I64(1) /\ WellFormed(store[i].key)
                => RecordOf(store[i].key) \in data
    /\ data \subseteq {RecordOf(store[i].key) :
                        i \in {j \in Processed : store[j].value = I64(1)
                                                    /\ WellFormed(store[j].key)}}
    /\ load_result.kind = "Ok" => load_result.data = data /\ pos = Len(store)

C4_Witness ==
    /\ load_result.kind = "Ok"
    /\ \E i, j \in DOMAIN store :
          /\ store[i].value = I64(2) /\ WellFormed(store[i].key)
          /\ store[j].value = I64(1) /\ WellFormed(store[j].key)
          /\ load_result.data = {RecordOf(store[j].key)}
          /\ RecordOf(store[i].key) # RecordOf(store[j].key)
    /\ \E i \in DOMAIN store :
          store[i].value = NoValue /\ Recognized(store[i].key) /\ ~WellFormed(store[i].key)

\* C5 as stated: the loaded set holds exactly the records decoded from the
\* revoked entries under the `is` prefix; an `spk` entry adds no member.
C5_OnlyIssuerSerialEntries ==
    load_result.kind = "Ok" =>
        load_result.data =
            {RecordOf(store[i].key) :
                i \in {j \in DOMAIN store : /\ has_prefix(store[j].key, PrefixIs)
                                            /\ store[j].value = I64(1)}}

\* the entry is revoked, its prefix is recognized and the splitter rejects its payload
Fails(e) ==
    e.value = I64(1) /\ Recognized(e.key) /\ split_der_key(Payload(e.key)).kind = "Err"

\* the records of a set of entries, whatever the order they are iterated in
Decoded(entries) ==
    {RecordOf(e.key) : e \in {x \in entries : x.value = I64(1) /\ Recognized(x.key)}}

\* C6 as stated: the load fails at the first failing entry in store order,
\* with that entry's splitter error, processes nothing after it and returns no
\* set; if no entry fails it returns the records of all the entries, a
\* function of the set of entries alone.
C6_FailsOnlyOnEntries ==
    /\ load_result.kind \in {"Opening", "Running", "Ok", "Err"}
    /\ \A i \in Processed : ~Fails(store[i])
    /\ load_result.kind = "Err" =>
          /\ pos < Len(store)
          /\ Fails(store[pos + 1])
          /\ load_result.err = <<"failed to build set from cert_storage",
                                 split_der_key(Payload(store[pos + 1].key)).err>>
          /\ load_result.data = {}
          /\ ~ENABLED NextLoad
    /\ load_result.kind = "Ok" =>
          /\ pos = Len(store)
          /\ load_result.data = Decoded({store[i] : i \in DOMAIN store})

\* C6 amended: a load that meets no store error fails at the first failing
\* entry in store order, with that entry's splitter error, and otherwise
\* returns the records of all the entries, a function of the set of entries
\* alone; a store error (opening the store, or reading an item) fails the load
\* at once with that error, unchained.  A failed load processes nothing
\* further and returns no set.
C6_AllOrNothing ==
    /\ load_result.kind \in {"Opening", "Running", "Ok", "Err"}
    /\ \A i \in Processed : ~Fails(store[i])
    /\ load_result.kind = "Err" =>
          /\ load_result.data = {}
          /\ ~ENABLED NextLoad
          /\ \/ load_result.err \in StoreErrors
             \/ /\ pos < Len(store)
                /\ Fails(store[pos + 1])
                /\ load_result.err = <<"failed to build set from cert_storage",
                                       split_der_key(Payload(store[pos + 1].key)).err>>
    /\ load_result.kind = "Ok" =>
          /\ pos = Len(store)
          /\ load_result.data = Decoded({store[i] : i \in DOMAIN store})
    /\ (\E i \in DOMAIN store : Fails(store[i])) => load_result.kind # "Ok"

C6_Witness ==
    /\ load_result.kind = "Err"
    /\ load_result.err \notin StoreErrors
    /\ pos >= 1
    /\ pos + 1 < Len(store)
    /\ data # {}
    /\ \E i \in pos + 2 .. Len(store) : Fails(store[i])

(***************************************************************************)
(* Properties of the canonical record builders (SpecBuild) and of the      *)
(* reconciler (SpecReconcile).                                             *)
(***************************************************************************)
Range(l) == {l[i] : i \in DOMAIN l}
NoDuplicates(l) == \A i, j \in DOMAIN l : l[i] = l[j] => i = j
AllParse(names) == \A n \in names : parse_name(n).ok

\* the canonical record of an issuer name and a serial
Canonical(name, ser) ==
    Intermediary(parse_name(name).common_name, parse_name(name).organization, ser)

CanonicalCertStorage == {Canonical(e.issuer_name, e.serial) : e \in cert_storage}
CanonicalKinto == {Canonical(kinto[i].issuer_name, kinto[i].serial_number) : i \in DOMAIN kinto}
CanonicalRevocations ==
    UNION {{Canonical(revocations[i].issuer_name, x) : x \in Range(revocations[i].serials)} :
            i \in DOMAIN revocations}
CanonicalCCADB ==
    {Intermediary(ccadb[i].certificate_issuer_common_name,
                  ccadb[i].certificate_issuer_organization,
                  base64_encode(hex_decode(ccadb[i].certificate_serial_number).bytes)) :
        i \in DOMAIN ccadb}

\* field f of the report is present and lists x \ y, each member once
Lists(f, x, y) ==
    /\ outcome.ret[f].some
    /\ NoDuplicates(outcome.ret[f].list)
    /\ Range(outcome.ret[f].list) = x \ y
    /\ x = y => outcome.ret[f].list = <<>>

Absent(fields) == \A f \in fields : outcome.ret[f] = None

\* C7: a report holds exactly the fields of its comparison mode, each the
\* directional difference its name states, without duplicates, empty when the
\* two sets are equal; every other field is absent.
C7_FieldsOfTheMode ==
    outcome.kind = "Return" =>
        CASE outcome.op = "WithRevocations" ->
                /\ Lists("in_kinto_not_in_cert_storage", CanonicalKinto, CanonicalCertStorage)
                /\ Lists("in_cert_storage_not_in_kinto", CanonicalCertStorage, CanonicalKinto)
                /\ Lists("in_cert_storage_not_in_revocations",
                         CanonicalCertStorage, CanonicalRevocations)
                /\ Lists("in_revocations_not_in_cert_storage",
                         CanonicalRevocations, CanonicalCertStorage)
                /\ Lists("in_revocations_not_in_kinto", CanonicalRevocations, CanonicalKinto)
                /\ Lists("in_kinto_not_in_revocations", CanonicalKinto, CanonicalRevocations)
                /\ Absent({"in_ccadb_not_in_cert_storage", "in_cert_storage_not_in_ccadb"})
          [] outcome.op = "WithoutRevocations" ->
                /\ Lists("in_kinto_not_in_cert_storage", CanonicalKinto, CanonicalCertStorage)
                /\ Lists("in_cert_storage_not_in_kinto", CanonicalCertStorage, CanonicalKinto)
                /\ Absent(ReturnFields \ {"in_kinto_not_in_cert_storage",
                                          "in_cert_storage_not_in_kinto"})
          [] outcome.op = "CCADBDiffCertStorage" ->
                /\ Lists("in_ccadb_not_in_cert_storage", CanonicalCCADB, CanonicalCertStorage)
                /\ Lists("in_cert_storage_not_in_ccadb", CanonicalCertStorage, CanonicalCCADB)
                /\ Absent(ReturnFields \ {"in_ccadb_not_in_cert_storage",
                                          "in_cert_storage_not_in_ccadb"})
          [] OTHER -> FALSE

C7_Witness ==
    /\ outcome.kind = "Return"
    /\ outcome.op = "WithRevocations"
    /\ Len(outcome.ret["in_kinto_not_in_revocations"].list) = 2
    /\ Len(outcome.ret["in_revocations_not_in_kinto"].list) = 0
    /\ Len(outcome.ret["in_cert_storage_not_in_kinto"].list) = 0
    /\ CanonicalCertStorage = CanonicalKinto
    /\ CanonicalRevocations = {}

\* C8 as stated: a conversion ends with a set, a report or an error value,
\* never with an abnormal abort.
C8_NoAbnormalAbort == outcome.kind \in {"NotRun", "Set", "Return", "Err"}

\* C9: when every issuer name parses, the Revocations builder returns exactly
\* the records (common_name_i, organization_i, s) for s among issuer i's serials.
C9_FansOut ==
    outcome.op = "Revocations"
        /\ AllParse({revocations[i].issuer_name : i \in DOMAIN revocations})
    => outcome.kind = "Set" /\ outcome.set = CanonicalRevocations

C9_Witness ==
    /\ outcome.op = "Revocations"
    /\ outcome.kind = "Set"
    /\ Len(revocations) = 2
    /\ revocations[1].issuer_name # revocations[2].issuer_name
    /\ revocations[1].serials = <<>>
    /\ Len(revocations[2].serials) = 2
    /\ Cardinality(outcome.set) = 2
    /\ \A m \in outcome.set : m.common_name = parse_name(revocations[2].issuer_name).common_name

\* C10: when every issuer name parses, the Kinto and CertStorage builders
\* return exactly the records (common_name(name_i), organization(name_i),
\* serial_i), with every index in bounds; equal triples collapse, so the set
\* is no larger than the source.
C10_Aligned ==
    /\ outcome.op = "Kinto" /\ AllParse({kinto[i].issuer_name : i \in DOMAIN kinto})
        => /\ outcome.kind = "Set"
           /\ outcome.set = CanonicalKinto
           /\ Cardinality(outcome.set) <= Len(kinto)
    /\ outcome.op = "CertStorage" /\ AllParse({e.issuer_name : e \in cert_storage})
        => /\ outcome.kind = "Set"
           /\ outcome.set = CanonicalCertStorage
           /\ Cardinality(outcome.set) <= Cardinality(cert_storage)

C10_Witness ==
    /\ outcome.op = "Kinto"
    /\ outcome.kind = "Set"
    /\ Len(kinto) = 2
    /\ kinto[1].issuer_name # kinto[2].issuer_name
    /\ Cardinality(outcome.set) = 1

====
